---------------------------- MODULE Spec2Model ----------------------------
(***************************************************************************)
(* Model of the Samourais meme backend: the POST /api/process-video        *)
(* handler in its two variants (text/watermark: src/server.js, template:   *)
(* src/unnamed/part_000), the filter graph builders, the text helpers and  *)
(* the duration the transcoding engine gives the output.                   *)
(***************************************************************************)
EXTENDS Integers, Sequences, FiniteSets, TLC

VARIABLES
    variant,    \* which server file is deployed: "text" or "template"
    jobs,       \* per request: its uploads, paths, position and response
    fs,         \* the paths that exist under /tmp/uploads and /tmp/outputs
    nextUuid,   \* uuidv4() draws: every draw is a value never drawn before
    geom,       \* one evaluation of a variant's filter graph geometry
    txt,        \* one evaluation of the top-text step of buildFilterComplex
    dur         \* one engine run of processVideo: stream lengths and output length

vars == <<variant, jobs, fs, nextUuid, geom, txt, dur>>

\* What each specification leaves alone.
server == <<variant, jobs, fs, nextUuid>>

pure == <<geom, txt, dur>>

Idle == [stage |-> "idle"]

(***************************************************************************)
(* Bounds.                                                                 *)
(***************************************************************************)
NumJobs == 2

Jobs == 1..NumJobs

(***************************************************************************)
(* Paths.  A file name is a uuid or (never in the code) an original name.  *)
(***************************************************************************)
UPLOAD_DIR == "/tmp/uploads"

OUTPUT_DIR == "/tmp/outputs"

NoPath == [dir |-> "", base |-> [k |-> "", n |-> 0], ext |-> ""]

UuidName(u) == [k |-> "uuid", n |-> u]

OrigName(o) == [k |-> "orig", n |-> o.base]

\* A file name taken from the client: what the storage must not do.
FilenameFromOriginal(u, original) ==
    [dir |-> UPLOAD_DIR, base |-> OrigName(original), ext |-> original.ext]

\* storage.filename: `${uuidv4()}${path.extname(file.originalname)}` in UPLOAD_DIR
Filename(u, original) ==
    [dir |-> UPLOAD_DIR, base |-> UuidName(u), ext |-> original.ext]

\* path.join(OUTPUT_DIR, `${outputId}.mp4`)
OutputPath(outputId) ==
    [dir |-> OUTPUT_DIR, base |-> UuidName(outputId), ext |-> ".mp4"]

(***************************************************************************)
(* Requests.  params is the JSON text of req.body.params, which the        *)
(* handler first reads inside its try block: "bad" does not parse, the     *)
(* others are objects with some fields set.                                *)
(***************************************************************************)
ParamChoices ==
    { [json |-> "bad"],
      [json |-> "ok"],
      [json |-> "ok", imageScale |-> 0],
      [json |-> "ok", trimStart |-> 4, trimEnd |-> 4],
      [json |-> "ok", frameWidth |-> 0 - 10] }

\* const { field = def } = params
Field(params, f, def) == IF f \in DOMAIN params THEN params[f] ELSE def

\* The handler's destructuring with its defaults (the fields a check needs).
Destructure(params) ==
    [ frameWidth  |-> Field(params, "frameWidth", 972),
      frameHeight |-> Field(params, "frameHeight", 810),
      trimStart   |-> Field(params, "trimStart", 0),
      trimEnd     |-> Field(params, "trimEnd", 10),
      imageScale  |-> Field(params, "imageScale", 100) ]

\* What the spec calls invalid input: scale <= 0, trim end <= start,
\* negative frame dimensions.
InvalidParams(params) ==
    LET p == Destructure(params) IN
       \/ p.imageScale <= 0
       \/ p.trimEnd <= p.trimStart
       \/ p.frameWidth < 0
       \/ p.frameHeight < 0

VideoUploads == {"none", "video", "other"}   \* no file, video/*, another mimetype

Originals == { [base |-> 1, ext |-> ".mp4"] }

NewJob ==
    [ pc |-> "new", video |-> "none", template |-> FALSE, params |-> [json |-> "ok"],
      videoPath |-> NoPath, templatePath |-> NoPath, outputPath |-> NoPath,
      status |-> 0, body |-> "", built |-> FALSE, engine |-> 0,
      filesAtReject |-> {} ]

\* The temp files a request caused to be created (or named for creation).
JobPaths(j) == {jobs[j].videoPath, jobs[j].templatePath, jobs[j].outputPath} \ {NoPath}

InputPaths(j) == {jobs[j].videoPath, jobs[j].templatePath} \ {NoPath}

\* cleanupFiles: unlink each path that exists
cleanupFiles(files) == fs \ files

Init ==
    /\ variant \in {"text", "template"}
    /\ jobs = [j \in Jobs |-> NewJob]
    /\ fs = {}
    /\ nextUuid = 1
    /\ geom = Idle
    /\ txt = Idle
    /\ dur = Idle


(***************************************************************************)
(* multer.  upload.single('video') with the fileFilter (text variant) and  *)
(* upload.fields([video, template]) without one (template variant).  Every *)
(* accepted file is on disk, under a name drawn by storage.filename,       *)
(* before the handler runs.  A file the fileFilter refuses is not stored:  *)
(* its error goes to the error middleware, which answers 500.              *)
(***************************************************************************)
UploadText(j) ==
    /\ variant = "text"
    /\ jobs[j].pc = "new"
    /\ \E video \in VideoUploads, original \in Originals :
         CASE video = "none" ->
                /\ jobs' = [jobs EXCEPT ![j] = [@ EXCEPT !.pc = "uploaded"]]
                /\ UNCHANGED <<fs, nextUuid>>
           [] video = "other" ->
                /\ jobs' = [jobs EXCEPT ![j] =
                              [@ EXCEPT !.pc = "done", !.video = video, !.status = 500,
                                        !.body = "Only video files are allowed"]]
                /\ UNCHANGED <<fs, nextUuid>>
           [] video = "video" ->
                LET path == Filename(nextUuid, original) IN
                /\ jobs' = [jobs EXCEPT ![j] =
                              [@ EXCEPT !.pc = "uploaded", !.video = video,
                                        !.videoPath = path]]
                /\ fs' = fs \cup {path}
                /\ nextUuid' = nextUuid + 1
    /\ UNCHANGED <<variant, pure>>

\* No fileFilter here: a file of any mimetype in the video field is stored.
UploadTemplate(j) ==
    /\ variant = "template"
    /\ jobs[j].pc = "new"
    /\ \E video \in {"none", "video"}, template \in BOOLEAN, original \in Originals :
         LET vPath == IF video = "none" THEN NoPath ELSE Filename(nextUuid, original)
             tUuid == IF video = "none" THEN nextUuid ELSE nextUuid + 1
             tPath == IF template THEN Filename(tUuid, [original EXCEPT !.ext = ".png"])
                      ELSE NoPath
         IN
         /\ jobs' = [jobs EXCEPT ![j] =
                       [@ EXCEPT !.pc = "uploaded", !.video = video,
                                 !.template = template,
                                 !.videoPath = vPath, !.templatePath = tPath]]
         /\ fs' = fs \cup ({vPath, tPath} \ {NoPath})
         /\ nextUuid' = IF template THEN tUuid + 1 ELSE tUuid
    /\ UNCHANGED <<variant, pure>>

(***************************************************************************)
(* The handler up to its first await.                                      *)
(***************************************************************************)
\* if (!req.file) / if (!req.files || !req.files.video): 400, return
RejectNoVideo(j) ==
    /\ jobs[j].pc = "uploaded"
    /\ jobs[j].video = "none"
    /\ jobs' = [jobs EXCEPT ![j] =
                  [@ EXCEPT !.pc = "done", !.status = 400,
                            !.body = "No video file uploaded",
                            !.filesAtReject = JobPaths(j) \cap fs]]
    /\ UNCHANGED <<variant, fs, nextUuid, pure>>

\* if (!req.files.template): 400, return (template variant only)
RejectNoTemplate(j) ==
    /\ variant = "template"
    /\ jobs[j].pc = "uploaded"
    /\ jobs[j].video # "none"
    /\ ~jobs[j].template
    /\ jobs' = [jobs EXCEPT ![j] =
                  [@ EXCEPT !.pc = "done", !.status = 400,
                            !.body = "No template file uploaded",
                            !.filesAtReject = JobPaths(j) \cap fs]]
    /\ UNCHANGED <<variant, fs, nextUuid, pure>>

\* outputId = uuidv4(); try { JSON.parse; destructure; [buildFilterComplex;]
\* processVideo(...) } catch { cleanupFiles; 500 }.  JSON.parse throwing is
\* the only way into the catch before the engine runs: nothing checks the
\* parsed values.
StartJob(j) ==
    /\ jobs[j].pc = "uploaded"
    /\ jobs[j].video # "none"
    /\ variant = "template" => jobs[j].template
    /\ \E params \in ParamChoices :
         LET outputPath == OutputPath(nextUuid)
             inputs == InputPaths(j)
         IN
         IF params.json = "bad"
         THEN /\ fs' = cleanupFiles(inputs \cup {outputPath})
              /\ jobs' = [jobs EXCEPT ![j] =
                            [@ EXCEPT !.pc = "done", !.params = params,
                                      !.outputPath = outputPath,
                                      !.status = 500, !.body = "error.message"]]
         ELSE /\ fs' = fs
              /\ jobs' = [jobs EXCEPT ![j] =
                            [@ EXCEPT !.pc = "engine", !.params = params,
                                      !.outputPath = outputPath,
                                      !.built = TRUE, !.engine = @ + 1]]
    /\ nextUuid' = nextUuid + 1
    /\ UNCHANGED <<variant, pure>>

(***************************************************************************)
(* processVideo's engine run: ffmpeg writes the output file and signals    *)
(* 'end' (resolve), or signals 'error' (reject) with whatever it had       *)
(* written, which the catch block's cleanupFiles then removes.             *)
(***************************************************************************)
\* .save(outputPath) ... .on('end') -> resolve(): the handler goes on to res.download
EngineEnd(j) ==
    /\ jobs[j].pc = "engine"
    /\ fs' = fs \cup {jobs[j].outputPath}
    /\ jobs' = [jobs EXCEPT ![j] = [@ EXCEPT !.pc = "sending"]]
    /\ UNCHANGED <<variant, nextUuid, pure>>

\* .on('error') -> reject(err) -> catch: cleanupFiles, 500 with error.message
EngineError(j) ==
    /\ jobs[j].pc = "engine"
    /\ fs' = cleanupFiles(JobPaths(j))
    /\ jobs' = [jobs EXCEPT ![j] =
                  [@ EXCEPT !.pc = "done", !.status = 500, !.body = "error.message"]]
    /\ UNCHANGED <<variant, nextUuid, pure>>

\* res.download's callback: cleanupFiles, and the error is only logged
DownloadCallback(j) ==
    /\ jobs[j].pc = "sending"
    /\ \E err \in BOOLEAN :
         jobs' = [jobs EXCEPT ![j] =
                    IF err THEN [@ EXCEPT !.pc = "done"]
                    ELSE [@ EXCEPT !.pc = "done", !.status = 200, !.body = "file"]]
    /\ fs' = cleanupFiles(JobPaths(j))
    /\ UNCHANGED <<variant, nextUuid, pure>>

Next ==
    \E j \in Jobs :
       \/ UploadText(j)
       \/ UploadTemplate(j)
       \/ RejectNoVideo(j)
       \/ RejectNoTemplate(j)
       \/ StartJob(j)
       \/ EngineEnd(j)
       \/ EngineError(j)
       \/ DownloadCallback(j)

Spec == Init /\ [][Next]_vars

(***************************************************************************)
(* Claims about the request lifecycle (checked under Spec).                *)
(***************************************************************************)

\* C1: in both variants every temp file a request caused to be created (the
\* uploads multer wrote and the output file) is deleted by the time the
\* request has finished, on every exit path: download callback, engine or
\* parse failure, and the 400 for a missing upload.
C1_TempFilesReleasedOnEveryExit ==
    \A j \in Jobs : jobs[j].pc = "done" => JobPaths(j) \cap fs = {}

\* C2: a request with no video upload is answered 400, no temp file of it
\* exists on disk when it is rejected, and the engine is never run for it.
C2_NoVideoRejectedCleanly ==
    \A j \in Jobs :
       (jobs[j].pc = "done" /\ jobs[j].video = "none") =>
          /\ jobs[j].status = 400
          /\ jobs[j].filesAtReject = {}
          /\ jobs[j].engine = 0

\* C3: a request whose parameters are invalid (imageScale <= 0, trimEnd <=
\* trimStart, negative frame dimensions) never has a composition stage
\* built for it and never reaches the engine.
C3_InvalidParamsNeverReachEngine ==
    \A j \in Jobs :
       (jobs[j].params.json = "ok" /\ InvalidParams(jobs[j].params)) =>
          (~jobs[j].built /\ jobs[j].engine = 0)

\* C5: the temp paths of distinct jobs are disjoint, and while a job is
\* running the files it reads and writes are still on disk: no other job's
\* cleanup (or engine run) has removed or replaced them.
C5_JobsNeverShareTempFiles ==
    \A j \in Jobs :
       /\ \A k \in Jobs \ {j} : JobPaths(j) \cap JobPaths(k) = {}
       /\ jobs[j].pc \in {"uploaded", "engine"} => InputPaths(j) \subseteq fs
       /\ jobs[j].pc = "sending" => JobPaths(j) \subseteq fs

\* Two requests overlap: one has finished its download and cleaned up while
\* the other, started before that, still waits to send its output.
C5_CleanupBesideRunningJob ==
    \E j, k \in Jobs :
       /\ j # k
       /\ jobs[j].pc = "done" /\ jobs[j].status = 200
       /\ jobs[k].pc = "sending"
       /\ jobs[k].videoPath.base.n < jobs[j].outputPath.base.n

\* C12: a request that passed the upload checks runs the engine at most
\* once and, once its handling is over, has been answered exactly once:
\* with the file download, sent only after the engine signalled end, or
\* with the JSON error carrying the error message; a download that fails
\* after the engine succeeded is answered as a failure too, never left
\* without a response.
C12_EveryRequestAnswered ==
    \A j \in Jobs :
       (jobs[j].video = "video" /\ (variant = "template" => jobs[j].template)) =>
          /\ jobs[j].engine <= 1
          /\ jobs[j].status = 200 =>
                (jobs[j].pc = "done" /\ jobs[j].engine = 1 /\ jobs[j].body = "file")
          /\ jobs[j].pc = "done" =>
                \/ jobs[j].status = 200
                \/ jobs[j].status = 500 /\ jobs[j].body = "error.message"

(***************************************************************************)
(* processVideo: how long the output is.  Lengths are in output frames     *)
(* ('-r', '30').  fluent-ffmpeg's setStartTime is the input option -ss and *)
(* setDuration the output option -t; the rest follows the filter graph's   *)
(* overlay stages (shortest=1) and the '-shortest' output option.          *)
(***************************************************************************)
FrameRate == 30

MaxSeconds == 3

\* A `color` source has no end of its own.
Endless == 0 - 1

\* A PNG read without -loop: one frame.
StillFrames == 1

Min2(a, b) == IF a <= b THEN a ELSE b

Max2(a, b) == IF a >= b THEN a ELSE b

Shortest(a, b) ==
    IF a = Endless THEN b ELSE IF b = Endless THEN a ELSE Min2(a, b)

\* .setStartTime(trimStart): -ss on the video input, for all its streams
SeekInput(seconds, trimStart) == Max2(0, seconds - trimStart) * FrameRate

\* overlay=...:shortest=1 ends with the shorter of its two inputs
OverlayShortest(main, over) == Shortest(main, over)

\* [bg][scaled]overlay..shortest=1 -> crop -> [bg2][cropped]overlay..shortest=1
\* -> drawtext stages: [final] is as long as the seeked video stream
TextGraphFrames(video) ==
    OverlayShortest(Endless, OverlayShortest(Endless, video))

\* [bg][scaled]overlay..shortest=1[with_video];
\* [with_video][1:v]overlay=0:0:shortest=1[final]
TemplateGraphFrames(video, template) ==
    OverlayShortest(OverlayShortest(Endless, video), template)

\* '-map' '0:a?' adds the audio stream when there is one; '-shortest' ends
\* the output with its shortest stream; -t (setDuration) cuts it at duration.
OutputFrames(final, hasAudio, audio, duration) ==
    LET streams == IF hasAudio THEN Shortest(final, audio) ELSE final
    IN  Min2(streams, duration * FrameRate)

DurationInputs ==
    [ stage : {"input"},
      trimStart : 0..1,
      trimEnd : 1..MaxSeconds,
      videoSeconds : 1..(MaxSeconds + 1),
      hasAudio : BOOLEAN,
      audioSeconds : {1, MaxSeconds + 2},
      templateFrames : {StillFrames} ]

\* The engine succeeds when it has a positive duration to write and the
\* seeked video stream is not empty.
EngineSucceeds(d) ==
    /\ d.trimEnd - d.trimStart > 0
    /\ SeekInput(d.videoSeconds, d.trimStart) > 0

\* server.js processVideo(inputPath, outputPath, options)
ProcessVideoText ==
    /\ dur.stage = "input"
    /\ LET duration == dur.trimEnd - dur.trimStart
           final == TextGraphFrames(SeekInput(dur.videoSeconds, dur.trimStart))
           audio == SeekInput(dur.audioSeconds, dur.trimStart)
       IN dur' = [ stage |-> "done", variant |-> "text", input |-> dur,
                   ok |-> EngineSucceeds(dur),
                   out |-> OutputFrames(final, dur.hasAudio, audio, duration) ]
    /\ UNCHANGED <<server, geom, txt>>

\* part_000 processVideo(videoPath, templatePath, outputPath, options)
ProcessVideoTemplate ==
    /\ dur.stage = "input"
    /\ LET duration == dur.trimEnd - dur.trimStart
           final == TemplateGraphFrames(SeekInput(dur.videoSeconds, dur.trimStart),
                                        dur.templateFrames)
           audio == SeekInput(dur.audioSeconds, dur.trimStart)
       IN dur' = [ stage |-> "done", variant |-> "template", input |-> dur,
                   ok |-> EngineSucceeds(dur),
                   out |-> OutputFrames(final, dur.hasAudio, audio, duration) ]
    /\ UNCHANGED <<server, geom, txt>>

InitDuration ==
    /\ variant = "text"
    /\ jobs = [j \in Jobs |-> NewJob]
    /\ fs = {}
    /\ nextUuid = 1
    /\ geom = Idle
    /\ txt = Idle
    /\ dur \in DurationInputs

NextDuration == ProcessVideoText \/ ProcessVideoTemplate

SpecDuration == InitDuration /\ [][NextDuration]_vars

\* C4: the output of every successful job lasts trimEnd - trimStart, to
\* within one frame, whatever the lengths of the input streams.
C4_OutputLastsTrimWindow ==
    (dur.stage = "done" /\ dur.ok) =>
       LET want == (dur.input.trimEnd - dur.input.trimStart) * FrameRate
       IN  dur.out - want \in (0 - 1)..1

(***************************************************************************)
(* Geometry of the filter graphs.  A surface is its size and the set of    *)
(* its pixels that show source video.  Numbers the code computes in        *)
(* floating point are computed here exactly, on integers.                  *)
(***************************************************************************)
MaxCanvas == 8

MaxOffset == 2

\* Math.round(n2 / 2): halves round up
Round2(n2) == (n2 + 1) \div 2

\* (int)(a / b) for b > 0: the engine's cast of an expression's value
TruncDiv(a, b) == IF a >= 0 THEN a \div b ELSE 0 - ((0 - a) \div b)

\* a * b / c rounded to the nearest integer, for non-negative a / b
RoundDiv(a, b) == (2 * a + b) \div (2 * b)

Rect(x, y, w, h) == { <<a, b>> : a \in x..(x + w - 1), b \in y..(y + h - 1) }

FrameRect(p) == Rect(p.frameX, p.frameY, p.frameWidth, p.frameHeight)

\* color=white:s=WxH: a surface with no source pixel
Background(p) == [w |-> p.templateWidth, h |-> p.templateHeight, src |-> {}]

\* [main][over]overlay=x:y: over is drawn on main with its corner at (x, y)
Overlay(main, over, x, y) ==
    [ w |-> main.w, h |-> main.h,
      src |-> { px \in Rect(0, 0, main.w, main.h) :
                  IF px \in Rect(x, y, over.w, over.h)
                  THEN <<px[1] - x, px[2] - y>> \in over.src
                  ELSE px \in main.src } ]

\* crop=cw:ch:cx:cy
Crop(surface, cw, ch, cx, cy) ==
    [ w |-> cw, h |-> ch,
      src |-> { <<px[1] - cx, px[2] - cy>> : px \in surface.src \cap Rect(cx, cy, cw, ch) } ]

\* Math.round(frameCenterX + imageOffsetX), frameCenterX = frameX + frameWidth / 2
VideoCanvasCentred(p) ==
    [ x |-> Round2(p.templateWidth + 2 * p.imageOffsetX),
      y |-> Round2(p.templateHeight + 2 * p.imageOffsetY) ]

VideoCentre(p) ==
    [ x |-> Round2(2 * p.frameX + p.frameWidth + 2 * p.imageOffsetX),
      y |-> Round2(2 * p.frameY + p.frameHeight + 2 * p.imageOffsetY) ]

\* overlay=x='${videoX}-overlay_w/2':y='${videoY}-overlay_h/2'
OverlayCorner(centre, over) ==
    [ x |-> TruncDiv(2 * centre.x - over.w, 2),
      y |-> TruncDiv(2 * centre.y - over.h, 2) ]

\* server.js step 1: scale=w='max(fw*s\,ih*fw/fh*s)':h='max(fh*s\,iw*fh/fw*s)':
\* force_original_aspect_ratio=increase.  An expression that evaluates to 0
\* stands for the input's own size; then each side is raised to the size
\* the other side's aspect-true partner asks for.
ScaleCover(p, iw, ih) ==
    LET sc  == p.imageScale
        ew  == Max2(TruncDiv(p.frameWidth * sc, 100),
                    TruncDiv(ih * p.frameWidth * sc, p.frameHeight * 100))
        eh  == Max2(TruncDiv(p.frameHeight * sc, 100),
                    TruncDiv(iw * p.frameHeight * sc, p.frameWidth * 100))
        w0  == IF ew = 0 THEN iw ELSE ew
        h0  == IF eh = 0 THEN ih ELSE eh
    IN  [ w |-> Max2(RoundDiv(h0 * iw, ih), w0),
          h |-> Max2(RoundDiv(w0 * ih, iw), h0) ]

\* part_000: scaledWidth = Math.round(frameWidth * scaleFactor * 1.2);
\* scale=${scaledWidth}:-1 (the height follows the source's aspect ratio)
ScaleWidthOnly(p, iw, ih) ==
    LET scaledWidth == (p.frameWidth * p.imageScale * 12 + 500) \div 1000
    IN  [ w |-> scaledWidth, h |-> RoundDiv(scaledWidth * ih, iw) ]

Scaled(size) == [w |-> size.w, h |-> size.h, src |-> Rect(0, 0, size.w, size.h)]

\* server.js step 2: [bg][scaled]overlay=...[with_video]
TextWithVideo(p, iw, ih) ==
    LET scaled == Scaled(ScaleCover(p, iw, ih))
        at == OverlayCorner(VideoCentre(p), scaled)
    IN  Overlay(Background(p), scaled, at.x, at.y)

\* The graph without step 3: what leaving the crop out would give.
TextGraphUncropped(p, iw, ih) == TextWithVideo(p, iw, ih)

\* server.js steps 1-3: ...[with_video]crop=fw:fh:fx:fy[cropped];
\* [bg2][cropped]overlay=fx:fy[composed].  The drawtext stages that follow
\* draw text and move no pixel of the source.
TextGraph(p, iw, ih) ==
    LET cropped == Crop(TextWithVideo(p, iw, ih),
                        p.frameWidth, p.frameHeight, p.frameX, p.frameY)
    IN  Overlay(Background(p), cropped, p.frameX, p.frameY)

\* part_000: [bg][scaled]overlay=...[with_video], the surface the template
\* image is then laid over
TemplateGraph(p, iw, ih) ==
    LET scaled == Scaled(ScaleWidthOnly(p, iw, ih))
        at == OverlayCorner(VideoCentre(p), scaled)
    IN  Overlay(Background(p), scaled, at.x, at.y)

\* Valid geometry: positive sizes, the frame inside the canvas.
GeometryInputs ==
    [ templateWidth : {MaxCanvas - 2, MaxCanvas},
      templateHeight : {MaxCanvas - 2},
      frameX : 0..2,
      frameY : 0..1,
      frameWidth : {3, 4},
      frameHeight : {2, 3, 4},
      imageScale : {50, 100, 150},
      imageOffsetX : {0 - MaxOffset, 0, 1},
      imageOffsetY : {0, MaxOffset} ]

\* Source videos, as <<width, height>>.
Sources == { <<2, 1>>, <<1, 2>>, <<4, 4>>, <<6, 3>> }

BuildFilterComplex ==
    /\ geom.stage = "input"
    /\ LET p == geom.p
           size == ScaleCover(p, geom.iw, geom.ih)
       IN geom' = [ stage |-> "built", variant |-> "text", p |-> p,
                    iw |-> geom.iw, ih |-> geom.ih,
                    scaled |-> size,
                    corner |-> OverlayCorner(VideoCentre(p), size),
                    withVideo |-> TextWithVideo(p, geom.iw, geom.ih).src,
                    result |-> TextGraph(p, geom.iw, geom.ih).src ]
    /\ UNCHANGED <<server, txt, dur>>

BuildTemplateFilter ==
    /\ geom.stage = "input"
    /\ LET p == geom.p
           size == ScaleWidthOnly(p, geom.iw, geom.ih)
           surface == TemplateGraph(p, geom.iw, geom.ih)
       IN geom' = [ stage |-> "built", variant |-> "template", p |-> p,
                    iw |-> geom.iw, ih |-> geom.ih,
                    scaled |-> size,
                    corner |-> OverlayCorner(VideoCentre(p), size),
                    withVideo |-> surface.src,
                    result |-> surface.src ]
    /\ UNCHANGED <<server, txt, dur>>

InitGeometry ==
    /\ variant = "text"
    /\ jobs = [j \in Jobs |-> NewJob]
    /\ fs = {}
    /\ nextUuid = 1
    /\ \E p \in GeometryInputs, s \in Sources :
          geom = [stage |-> "input", p |-> p, iw |-> s[1], ih |-> s[2]]
    /\ txt = Idle
    /\ dur = Idle

NextGeometry == BuildFilterComplex \/ BuildTemplateFilter

SpecGeometry == InitGeometry /\ [][NextGeometry]_vars

Abs(n) == IF n >= 0 THEN n ELSE 0 - n

\* C6 (as stated): in both variants no pixel of the source shows outside
\* the frame rectangle on the surface the builder's stages produce (for
\* the template variant: the surface before the template image is applied).
C6_SourceInsideFrameBothVariants ==
    geom.stage = "built" => geom.result \subseteq FrameRect(geom.p)

\* C6 (amended): the text/watermark variant's crop-then-reseat keeps every
\* source pixel inside the frame rectangle.
C6_SourceInsideFrameTextVariant ==
    (geom.stage = "built" /\ geom.variant = "text") =>
       geom.result \subseteq FrameRect(geom.p)

\* The text variant has built a graph whose scaled source, once placed on
\* the background, overflows the frame, and part of it stays visible.
C6_CropCutsOverflow ==
    /\ geom.stage = "built"
    /\ geom.variant = "text"
    /\ ~(geom.withVideo \subseteq FrameRect(geom.p))
    /\ geom.result # {}

\* C7: in both variants the scaled source is placed with its centre at the
\* frame's centre plus the offsets, to the whole pixel (the centre is
\* rounded, then the corner cut to an integer: less than a pixel and a half
\* in all), whatever the canvas size; the text variant's crop and reseat do
\* not move it.
C7_SourceCentredOnFrameCentre ==
    geom.stage = "built" =>
       LET p == geom.p IN
       /\ Abs(2 * geom.corner.x + geom.scaled.w
                - (2 * p.frameX + p.frameWidth + 2 * p.imageOffsetX)) <= 2
       /\ Abs(2 * geom.corner.y + geom.scaled.h
                - (2 * p.frameY + p.frameHeight + 2 * p.imageOffsetY)) <= 2
       /\ geom.withVideo =
             Rect(geom.corner.x, geom.corner.y, geom.scaled.w, geom.scaled.h)
                \cap Rect(0, 0, p.templateWidth, p.templateHeight)
       /\ geom.variant = "text" => geom.result = geom.withVideo \cap FrameRect(p)

\* Offsets (0, 0) and a frame whose centre is not the canvas centre.
C7_ZeroOffsetOffCentreFrame ==
    /\ geom.stage = "built"
    /\ geom.p.imageOffsetX = 0
    /\ geom.p.imageOffsetY = 0
    /\ Abs(2 * geom.p.frameX + geom.p.frameWidth - geom.p.templateWidth) > 2
    /\ geom.result # {}

\* C8: at imageScale = 100 the scale stage of either variant keeps the
\* source's aspect ratio (to the rounding of one side to whole pixels) and
\* yields a surface at least as wide and as high as the frame.
C8_ScaleCoversFrame ==
    (geom.stage = "built" /\ geom.p.imageScale = 100) =>
       /\ geom.scaled.w >= geom.p.frameWidth
       /\ geom.scaled.h >= geom.p.frameHeight
       /\ 2 * Abs(geom.scaled.w * geom.ih - geom.scaled.h * geom.iw)
             <= Max2(geom.iw, geom.ih)

(***************************************************************************)
(* The top text of buildFilterComplex (step 4): escapeFFmpegText, then     *)
(* wrapText, then the drawtext stage.  A text is a sequence of characters. *)
(***************************************************************************)
MaxTextLen == 4

BS == "\\"

QUOTE == "'"

Alphabet == {"a", "b", " ", ":", QUOTE, "%", BS, "[", "]"}

\* The characters the filter graph's own syntax uses.
Structural == {":", QUOTE, "%", BS, "[", "]"}

Texts == UNION { [1..n -> Alphabet] : n \in 0..MaxTextLen }

RECURSIVE ReplaceAll(_, _, _)
\* text.replace(/c/g, by)
ReplaceAll(text, c, by) ==
    IF text = <<>> THEN <<>>
    ELSE (IF Head(text) = c THEN by ELSE <<Head(text)>>) \o ReplaceAll(Tail(text), c, by)

escapeFFmpegText(text) ==
    LET s1 == ReplaceAll(text, BS, <<BS, BS, BS, BS>>)
        s2 == ReplaceAll(s1, QUOTE, <<QUOTE, BS, QUOTE, QUOTE>>)
        s3 == ReplaceAll(s2, ":", <<BS, ":">>)
        s4 == ReplaceAll(s3, "[", <<BS, "[">>)
        s5 == ReplaceAll(s4, "]", <<BS, "]">>)
    IN  ReplaceAll(s5, "%", <<BS, "%">>)

RECURSIVE Split(_)
\* text.split(' '): the pieces between spaces, empty ones included
Split(text) ==
    IF \A i \in 1..Len(text) : text[i] # " " THEN <<text>>
    ELSE LET i == CHOOSE k \in 1..Len(text) :
                     text[k] = " " /\ \A m \in 1..(k - 1) : text[m] # " "
         IN  <<SubSeq(text, 1, i - 1)>> \o Split(SubSeq(text, i + 1, Len(text)))

RECURSIVE TrimStart(_)
TrimStart(s) == IF s # <<>> /\ Head(s) = " " THEN TrimStart(Tail(s)) ELSE s

RECURSIVE TrimEnd(_)
TrimEnd(s) ==
    IF s # <<>> /\ s[Len(s)] = " " THEN TrimEnd(SubSeq(s, 1, Len(s) - 1)) ELSE s

\* String.prototype.trim
Trim(s) == TrimEnd(TrimStart(s))

RECURSIVE WrapLoop(_, _, _, _)
\* for (const word of words) {...}; if (currentLine) lines.push(currentLine)
WrapLoop(words, lines, currentLine, maxChars) ==
    IF words = <<>>
    THEN IF currentLine # <<>> THEN Append(lines, currentLine) ELSE lines
    ELSE LET word == Head(words)
             joined == Trim(currentLine \o <<" ">> \o word)
         IN  IF Len(joined) <= maxChars
             THEN WrapLoop(Tail(words), lines, joined, maxChars)
             ELSE WrapLoop(Tail(words),
                           IF currentLine # <<>> THEN Append(lines, currentLine) ELSE lines,
                           word, maxChars)

\* The lines wrapText joins; a text it returns as it is counts as one line.
WrapLines(text, maxChars) ==
    IF Len(text) <= maxChars THEN <<text>>
    ELSE WrapLoop(Split(text), <<>>, <<>>, maxChars)

RECURSIVE Join(_, _)
\* lines.join(sep)
Join(lines, sep) ==
    IF lines = <<>> THEN <<>>
    ELSE IF Len(lines) = 1 THEN lines[1]
    ELSE lines[1] \o sep \o Join(Tail(lines), sep)

\* wrapText(text, maxChars): lines joined by backslash n
wrapText(text, maxChars) == Join(WrapLines(text, maxChars), <<BS, "n">>)

\* Math.floor(templateWidth / (textSize * 0.6))
MaxCharsPerLine(templateWidth, textSize) == (templateWidth * 10) \div (textSize * 6)

\* `[composed]drawtext=text='${wrappedText}':fontfile=...:fontsize=...:
\*  fontcolor=black:x=(w-text_w)/2:y=${textY}[with_text]`; each word of the
\* graph's fixed syntax is one element.
TopTextStage(wrappedText) ==
    <<"[", "composed", "]", "drawtext", "=", "text", "=", QUOTE>>
       \o wrappedText
       \o <<QUOTE, ":", "fontfile", "=", "DejaVuSans-Bold.ttf",
            ":", "fontsize", "=", "textSize", ":", "fontcolor", "=", "black",
            ":", "x", "=", "(w-text_w)/2", ":", "y", "=", "textY",
            "[", "with_text", "]">>

TextInputs ==
    [ stage : {"input"},
      text : Texts,
      templateWidth : {12, 18},
      textSize : {10} ]

\* if (text && text.trim()) { escape, wrap, filters.push(drawtext...) }
BuildTopText ==
    /\ txt.stage = "input"
    /\ Trim(txt.text) # <<>>
    /\ LET maxChars == MaxCharsPerLine(txt.templateWidth, txt.textSize)
           escapedText == escapeFFmpegText(txt.text)
       IN txt' = [ stage |-> "built", text |-> txt.text, maxChars |-> maxChars,
                   lines |-> WrapLines(escapedText, maxChars),
                   filter |-> TopTextStage(wrapText(escapedText, maxChars)) ]
    /\ UNCHANGED <<server, geom, dur>>

\* an empty or whitespace-only text adds no stage
SkipTopText ==
    /\ txt.stage = "input"
    /\ Trim(txt.text) = <<>>
    /\ txt' = [ stage |-> "skipped", text |-> txt.text ]
    /\ UNCHANGED <<server, geom, dur>>

(***************************************************************************)
(* How the engine reads the stage.  The graph parser takes the filter's    *)
(* arguments up to the next unquoted [ ] , or ; removing one level of      *)
(* quotes and backslashes; the option parser splits them at unquoted       *)
(* colons, removing a second level; drawtext then expands the text: a      *)
(* backslash makes the next character literal and a percent sign starts an *)
(* expansion.                                                              *)
(***************************************************************************)
\* The token reader at one character: the mode it moves to, what it adds
\* to the token, and the character's position when it ends the token.
TokenStep(s, i, term, mode) ==
    CASE mode = "done" -> [mode |-> "done", tok |-> <<>>, stop |-> 0]
      [] mode = "escaped" -> [mode |-> "plain", tok |-> <<s[i]>>, stop |-> 0]
      [] mode = "quoted" ->
            IF s[i] = QUOTE THEN [mode |-> "plain", tok |-> <<>>, stop |-> 0]
            ELSE [mode |-> "quoted", tok |-> <<s[i]>>, stop |-> 0]
      [] mode = "plain" ->
            IF s[i] \in term THEN [mode |-> "done", tok |-> <<>>, stop |-> i]
            ELSE IF s[i] = BS /\ i < Len(s)
            THEN [mode |-> "escaped", tok |-> <<>>, stop |-> 0]
            ELSE IF s[i] = QUOTE THEN [mode |-> "quoted", tok |-> <<>>, stop |-> 0]
            ELSE [mode |-> "plain", tok |-> <<s[i]>>, stop |-> 0]

\* What the reader holds after two adjoining stretches of the string.
TokenJoin(left, right) ==
    [ mode |-> right.mode, tok |-> left.tok \o right.tok,
      stop |-> IF left.mode = "done" THEN left.stop ELSE right.stop ]

RECURSIVE ScanToken(_, _, _, _, _)
\* The token reader over s[lo..hi]: the left half, then the right half from
\* the mode the left half ended in (each half read once, to a value).
ScanToken(s, lo, hi, term, mode) ==
    IF lo > hi THEN [mode |-> mode, tok |-> <<>>, stop |-> 0]
    ELSE IF lo = hi THEN TokenStep(s, lo, term, mode)
    ELSE CHOOSE t \in UNION {
             { TokenJoin(left, right) :
                 right \in {ScanToken(s, (lo + hi) \div 2 + 1, hi, term, left.mode)} } :
                 left \in {ScanToken(s, lo, (lo + hi) \div 2, term, mode)} } : TRUE

\* One token of s up to an unquoted, unescaped terminator: [tok, rest].
GetToken(s, term, quoted) ==
    LET t == ScanToken(s, 1, Len(s), term, IF quoted THEN "quoted" ELSE "plain")
    IN  [ tok |-> t.tok,
          rest |-> IF t.mode = "done" THEN SubSeq(s, t.stop, Len(s)) ELSE <<>> ]

\* The stage after its input label and filter name: [args, rest], rest
\* being what the graph parser reads next (the output label).
FilterArgs(stage) ==
    LET t == GetToken(SubSeq(stage, 6, Len(stage)), {"[", "]", ",", ";"}, FALSE)
    IN  [args |-> t.tok, rest |-> t.rest]

RECURSIVE ParseOptions(_)
\* key=value pairs separated by colons; a value without a key has key "".
ParseOptions(args) ==
    IF args = <<>> THEN <<>>
    ELSE LET keyed == Len(args) >= 2 /\ args[2] = "=" /\ args[1] \notin Alphabet
             t == GetToken(IF keyed THEN SubSeq(args, 3, Len(args)) ELSE args,
                           {":"}, FALSE)
             more == IF t.rest = <<>> THEN <<>> ELSE Tail(t.rest)
         IN  <<[key |-> IF keyed THEN args[1] ELSE "", value |-> t.tok]>>
                \o ParseOptions(more)

RECURSIVE ExpandText(_)
\* drawtext's expansion of its text: [text, expansions]
ExpandText(s) ==
    IF s = <<>> THEN [text |-> <<>>, expansions |-> 0]
    ELSE IF Head(s) = BS /\ Len(s) >= 2
    THEN LET e == ExpandText(SubSeq(s, 3, Len(s)))
         IN  [text |-> <<s[2]>> \o e.text, expansions |-> e.expansions]
    ELSE IF Head(s) = "%"
    THEN LET e == ExpandText(Tail(s))
         IN  [text |-> e.text, expansions |-> e.expansions + 1]
    ELSE LET e == ExpandText(Tail(s))
         IN  [text |-> <<Head(s)>> \o e.text, expansions |-> e.expansions]

\* processVideo hands the graph to the engine: .complexFilter(filters, 'final')
EngineReadsStage ==
    /\ txt.stage = "built"
    /\ LET f == FilterArgs(txt.filter)
           options == ParseOptions(f.args)
           shown == ExpandText(options[1].value)
       IN txt' = [ stage |-> "read", text |-> txt.text, maxChars |-> txt.maxChars,
                   lines |-> txt.lines,
                   keys |-> [i \in 1..Len(options) |-> options[i].key],
                   label |-> f.rest,
                   shown |-> shown.text,
                   expansions |-> shown.expansions ]
    /\ UNCHANGED <<server, geom, dur>>

InitText ==
    /\ variant = "text"
    /\ jobs = [j \in Jobs |-> NewJob]
    /\ fs = {}
    /\ nextUuid = 1
    /\ geom = Idle
    /\ txt \in TextInputs
    /\ dur = Idle

NextText == BuildTopText \/ SkipTopText \/ EngineReadsStage

SpecText == InitText /\ [][NextText]_vars

RECURSIVE Flatten(_)
Flatten(seqs) == IF seqs = <<>> THEN <<>> ELSE Head(seqs) \o Flatten(Tail(seqs))

\* The words of a text: its non-empty pieces between spaces, in order.
Words(text) == SelectSeq(Split(text), LAMBDA w : w # <<>>)

Count(s, c) == Cardinality({ i \in 1..Len(s) : s[i] = c })

\* C9: a top text with no space is one line; a text no longer than
\* maxCharsPerLine is one line; a longer text is split only at spaces, each
\* word whole in one line and the words in order.
C9_WrapKeepsShortTextsAndWords ==
    txt.stage = "built" =>
       /\ (\A i \in 1..Len(txt.text) : txt.text[i] # " ") => Len(txt.lines) = 1
       /\ Len(txt.text) <= txt.maxChars => Len(txt.lines) = 1
       /\ Len(txt.text) > txt.maxChars =>
             Flatten([i \in 1..Len(txt.lines) |-> Words(txt.lines[i])])
                = [i \in 1..Len(Words(txt.text)) |->
                      escapeFFmpegText(Words(txt.text)[i])]

\* C10: every structural character of a text is read by the engine as a
\* literal character of the drawtext text: the stage keeps its options and
\* its output label, nothing is expanded, and the text shown has each
\* structural character as often as the text given.
C10_StructuralCharactersStayLiteral ==
    txt.stage = "read" =>
       /\ txt.keys = <<"text", "fontfile", "fontsize", "fontcolor", "x", "y">>
       /\ txt.label = <<"[", "with_text", "]">>
       /\ txt.expansions = 0
       /\ \A c \in Structural : Count(txt.shown, c) = Count(txt.text, c)

(***************************************************************************)
(* The whole stage list of buildFilterComplex: six fixed stages, the top   *)
(* text and overlay text stages when their text is present, the watermark  *)
(* stage, joined by semicolons; and the chain the engine's graph parser    *)
(* reads from that string.  A run of characters that holds none of the     *)
(* graph parser's special characters is a single element.                  *)
(***************************************************************************)
MaxStageTextLen == 2

StageAlphabet == {"a", " ", QUOTE, "[", ";"}

StageTexts(n) == UNION { [1..k -> StageAlphabet] : k \in 0..n }

\* text && text.trim()
Present(text) == Trim(text) # <<>>

\* overlayText.toUpperCase()
ToUpperCase(text) == [i \in 1..Len(text) |-> IF text[i] = "a" THEN "A" ELSE text[i]]

\* step 1: `[0:v]scale=w='max(..\,..)':h='max(..\,..)':force_original_aspect_ratio=increase[scaled]`
ScaleStage ==
    <<"[", "0:v", "]", "scale", "=",
      "w=", QUOTE, "max(fw*s", BS, ",", "ih*fw/fh*s)", QUOTE,
      ":h=", QUOTE, "max(fh*s", BS, ",", "iw*fh/fw*s)", QUOTE,
      ":force_original_aspect_ratio=increase", "[", "scaled", "]">>

\* `color=white:s=${templateWidth}x${templateHeight}:r=30[bg]` (and [bg2])
ColorStage(label) ==
    <<"color", "=", "white:s=WxH:r=30", "[", label, "]">>

\* step 2: `[bg][scaled]overlay=x='..':y='..':shortest=1[with_video]`
OverlayVideoStage ==
    <<"[", "bg", "]", "[", "scaled", "]", "overlay", "=",
      "x=", QUOTE, "videoX-overlay_w/2", QUOTE,
      ":y=", QUOTE, "videoY-overlay_h/2", QUOTE,
      ":shortest=1", "[", "with_video", "]">>

\* step 3: `[with_video]crop=fw:fh:fx:fy[cropped]`
CropStage ==
    <<"[", "with_video", "]", "crop", "=", "fw:fh:fx:fy", "[", "cropped", "]">>

\* step 3: `[bg2][cropped]overlay=fx:fy:shortest=1[composed]`
ReseatStage ==
    <<"[", "bg2", "]", "[", "cropped", "]", "overlay", "=",
      "fx:fy:shortest=1", "[", "composed", "]">>

\* step 5: `[${currentLabel}]drawtext=text='${escapedOverlay}':...[with_overlay]`
OverlayTextStage(currentLabel, escapedOverlay) ==
    <<"[", currentLabel, "]", "drawtext", "=", "text=", QUOTE>>
       \o escapedOverlay
       \o <<QUOTE,
            ":fontfile=DejaVuSans-Bold.ttf:fontsize=overlaySize:fontcolor=white:borderw=4:bordercolor=black:x=(w-text_w)/2:y=overlayY",
            "[", "with_overlay", "]">>

\* step 6: `[${currentLabel}]drawtext=text='SAMOURAIS':...[final]`
WatermarkStage(currentLabel) ==
    <<"[", currentLabel, "]", "drawtext", "=", "text=", QUOTE>>
       \o escapeFFmpegText(<<"SAMOURAIS">>)
       \o <<QUOTE,
            ":fontfile=DejaVuSans-Bold.ttf:fontsize=watermarkSize:fontcolor=white@wmOpacity:borderw=2:bordercolor=0x333333@wmOpacity:x=watermarkX-text_w:y=watermarkY-text_h",
            "[", "final", "]">>

\* currentLabel left as it was after the top text stage: a slip the code
\* does not make.
TextLabelStale(text) == "composed"

\* currentLabel after step 4
TextLabel(text) == IF Present(text) THEN "with_text" ELSE "composed"

\* currentLabel after step 5
OverlayLabel(currentLabel, overlayText) ==
    IF Present(overlayText) THEN "with_overlay" ELSE currentLabel

\* buildFilterComplex: the filters array
Filters(text, overlayText, maxChars) ==
    LET fixed == <<ScaleStage, ColorStage("bg"), OverlayVideoStage,
                   CropStage, ColorStage("bg2"), ReseatStage>>
        step4 == IF Present(text)
                 THEN Append(fixed,
                             TopTextStage(wrapText(escapeFFmpegText(text), maxChars)))
                 ELSE fixed
        label4 == TextLabel(text)
        step5 == IF Present(overlayText)
                 THEN Append(step4,
                             OverlayTextStage(label4,
                                 escapeFFmpegText(ToUpperCase(overlayText))))
                 ELSE step4
    IN  Append(step5, WatermarkStage(OverlayLabel(label4, overlayText)))

RECURSIVE ReadLabels(_)
\* A run of [label] links: [labels, rest]
ReadLabels(s) ==
    IF s # <<>> /\ Head(s) = "["
    THEN LET t == GetToken(Tail(s), {"]"}, FALSE)
             more == ReadLabels(IF t.rest = <<>> THEN <<>> ELSE Tail(t.rest))
         IN  [labels |-> <<t.tok>> \o more.labels, rest |-> more.rest]
    ELSE [labels |-> <<>>, rest |-> s]

\* One stage of the graph string: input links, filter name, =arguments,
\* output links; rest is what follows the separator after it.
ParseStage(s) ==
    LET ins == ReadLabels(s)
        nm == GetToken(ins.rest, {"=", ",", ";", "["}, FALSE)
        ar == IF nm.rest # <<>> /\ Head(nm.rest) = "="
              THEN GetToken(Tail(nm.rest), {"[", "]", ",", ";"}, FALSE)
              ELSE [tok |-> <<>>, rest |-> nm.rest]
        outs == ReadLabels(ar.rest)
    IN  [ stage |-> [ reads |-> ins.labels, name |-> nm.tok,
                      args |-> ar.tok, writes |-> outs.labels ],
          rest |-> IF outs.rest = <<>> THEN <<>> ELSE Tail(outs.rest) ]

RECURSIVE ParseGraph(_)
\* The graph parser: the stages of the string, in order.  Each stage is
\* parsed to a value before the parser moves on to the rest.
ParseGraph(s) ==
    IF s = <<>> THEN <<>>
    ELSE CHOOSE g \in { <<st.stage>> \o ParseGraph(st.rest) :
                          st \in {ParseStage(s)} } : TRUE

StageInputs ==
    [ stage : {"input"},
      text : StageTexts(MaxStageTextLen),
      overlayText : StageTexts(MaxStageTextLen - 1),
      templateWidth : {12},
      textSize : {10} ]

\* return filters.join(';')
BuildStageList ==
    /\ txt.stage = "input"
    /\ txt' = [ stage |-> "joined", text |-> txt.text,
                overlayText |-> txt.overlayText,
                filters |-> Join(Filters(txt.text, txt.overlayText,
                                   MaxCharsPerLine(txt.templateWidth, txt.textSize)),
                                 <<";">>) ]
    /\ UNCHANGED <<server, geom, dur>>

\* processVideo: .complexFilter(filters, 'final')
EngineReadsGraph ==
    /\ txt.stage = "joined"
    /\ txt' = [ stage |-> "graph", text |-> txt.text,
                overlayText |-> txt.overlayText,
                stages |-> ParseGraph(txt.filters) ]
    /\ UNCHANGED <<server, geom, dur>>

InitStages ==
    /\ variant = "text"
    /\ jobs = [j \in Jobs |-> NewJob]
    /\ fs = {}
    /\ nextUuid = 1
    /\ geom = Idle
    /\ txt \in StageInputs
    /\ dur = Idle

NextStages == BuildStageList \/ EngineReadsGraph

SpecStages == InitStages /\ [][NextStages]_vars

InSeq(x, seq) == \E i \in 1..Len(seq) : seq[i] = x

\* C11: for each combination of top text and overlay text present or
\* absent, the stage list is a well-formed chain: every label a stage reads
\* is 0:v or the output of exactly one earlier stage, every output label is
\* produced exactly once, no intermediate surface is left unread, an absent
\* text adds no stage, and the last stage is the watermark stage writing
\* the surface final.
C11_StageListIsWellFormedChain ==
    txt.stage = "graph" =>
       LET g == txt.stages
           n == Len(g)
           producers(l) == { k \in 1..n : InSeq(l, g[k].writes) }
           hasText == Present(txt.text)
           hasOverlay == Present(txt.overlayText)
       IN
       /\ n = 7 + (IF hasText THEN 1 ELSE 0) + (IF hasOverlay THEN 1 ELSE 0)
       /\ \A i \in 1..n : \A r \in 1..Len(g[i].reads) :
             \/ g[i].reads[r] = <<"0:v">>
             \/ /\ Cardinality(producers(g[i].reads[r])) = 1
                /\ \A k \in producers(g[i].reads[r]) : k < i
       /\ \A i \in 1..n :
             /\ Len(g[i].writes) = 1
             /\ producers(g[i].writes[1]) = {i}
       /\ \A i \in 1..(n - 1) :
             \E k \in (i + 1)..n : InSeq(g[i].writes[1], g[k].reads)
       /\ (\E i \in 1..n : g[i].writes = << <<"with_text">> >>) <=> hasText
       /\ (\E i \in 1..n : g[i].writes = << <<"with_overlay">> >>) <=> hasOverlay
       /\ g[n].name = <<"drawtext">>
       /\ InSeq("SAMOURAIS", g[n].args)
       /\ g[n].writes = << <<"final">> >>

\* A top text with a quote in it is present and the overlay text is only
\* whitespace: eight stages, the watermark reading with_text.
C11_TextPresentOverlayBlank ==
    /\ txt.stage = "graph"
    /\ InSeq(QUOTE, txt.text)
    /\ txt.overlayText = <<" ">>
    /\ Len(txt.stages) = 8
    /\ txt.stages[8].reads = << <<"with_text">> >>

=============================================================================
